---------------------------- MODULE Spec2Model ----------------------------
(***************************************************************************)
(* Model of script/convert_themes.py: the conversion of ZQLZ theme JSON    *)
(* files to Zed's native theme format.                                     *)
(*                                                                         *)
(* JSON values.  A JSON object is a function whose domain is a finite set  *)
(* of strings (a Python dict).  A JSON scalar is a record [t, s]: t is the *)
(* JSON type ("str", "null", "bool", "num") and s the text of the value.   *)
(* An entry of a raw syntax mapping and an element of a `themes` list are  *)
(* records [kind, m]: kind "map" with the object m, or the kind of a       *)
(* non-object value with m empty.  The value of a document's `themes` key  *)
(* is a record [kind, items]: kind "list" with the sequence items, or the  *)
(* kind of a value that cannot be iterated.                                *)
(***************************************************************************)
EXTENDS Naturals, Sequences, FiniteSets, TLC

VARIABLES
    old_syntax,   \* convert_syntax: its argument
    syntax,       \* convert_syntax: its return value (NotRun before the call)
    old_theme,    \* convert_theme: its argument
    new_theme,    \* convert_theme: its return value (NotRun before the call)
    files,        \* the themes directory: file name -> decoded JSON document
    pc,           \* main / convert_theme_file: the position of the process
    todo,         \* main: the files themes_dir.glob has not yielded yet
    cur,          \* main: theme_file
    old_data,     \* convert_theme_file: old_data
    new_data,     \* convert_theme_file: new_data
    idx,          \* convert_theme_file: elements of themes consumed by the loop
    runs,         \* the runs of the script started so far
    at_start,     \* history: the directory as the current run found it
    migrated      \* history: file -> the document the first complete run that
                  \* converted the file wrote to it

vars == <<old_syntax, syntax, old_theme, new_theme, files, pc, todo, cur,
          old_data, new_data, idx, runs, at_start, migrated>>

-----------------------------------------------------------------------------
(* JSON scalars and Python's treatment of them *)

Str(s) == [t |-> "str", s |-> s]
None == [t |-> "null", s |-> ""]
False == [t |-> "bool", s |-> "false"]
Num(s) == [t |-> "num", s |-> s]

\* The empty dict {}.
EmptyMap == [k \in {} |-> None]

\* The value of a variable before the function that sets it has run.
NotRun == [t |-> "notrun", s |-> ""]

\* bool(v) of a JSON scalar: "", None, False and 0 are falsy.
Truthy(v) ==
    CASE v.t = "str" -> v.s # ""
      [] v.t = "null" -> FALSE
      [] v.t = "bool" -> v.s = "true"
      [] v.t = "num" -> v.s # "0"
      [] OTHER -> TRUE

\* f"{v}" of a JSON scalar.
Format(v) ==
    CASE v.t = "null" -> "None"
      [] v.t = "bool" -> (IF v.s = "true" THEN "True" ELSE "False")
      [] OTHER -> v.s

\* dict.get treating an empty string as a missing key.
GetNonEmpty(d, k, default) ==
    IF k \in DOMAIN d /\ d[k] # Str("") THEN d[k] ELSE default

\* d.get(k, default): the value of a present key, whatever it is.
Get(d, k, default) ==
    IF k \in DOMAIN d THEN d[k] ELSE default

-----------------------------------------------------------------------------
(* convert_syntax *)

\* The entry built for one mapping value, with font_style kept when present.
syntax_entry_keep_present(value) ==
    LET color == Get(value, "color", Str(""))
        font_style == Get(value, "font_style", None)
        font_weight == Get(value, "font_weight", None)
        keys == {"color"}
                \cup (IF "font_style" \in DOMAIN value THEN {"font_style"} ELSE {})
                \cup (IF Truthy(font_weight) THEN {"font_weight"} ELSE {})
    IN  [k \in keys |->
            CASE k = "color" -> color
              [] k = "font_style" -> font_style
              [] k = "font_weight" -> font_weight]

\* The body of the loop for one mapping value: entry = {"color": color}, then
\* font_style and font_weight added when truthy.
syntax_entry(value) ==
    LET color == Get(value, "color", Str(""))
        font_style == Get(value, "font_style", None)
        font_weight == Get(value, "font_weight", None)
        keys == {"color"}
                \cup (IF Truthy(font_style) THEN {"font_style"} ELSE {})
                \cup (IF Truthy(font_weight) THEN {"font_weight"} ELSE {})
    IN  [k \in keys |->
            CASE k = "color" -> color
              [] k = "font_style" -> font_style
              [] k = "font_weight" -> font_weight]

\* convert_syntax(old_syntax): the entries whose value is a dict, converted.
convert_syntax(raw) ==
    [key \in {k \in DOMAIN raw : raw[k].kind = "map"} |-> syntax_entry(raw[key].m)]

-----------------------------------------------------------------------------
(* convert_theme: the style table *)

\* The workspace (non-editor) part of `style`, resolved from `colors`.
ui_style(colors) ==
    ("background" :> Get(colors, "background", Str("#1a1b26")))
    @@ ("text" :> Get(colors, "foreground", Str("#c0caf5")))
    @@ ("text.muted" :> Get(colors, "muted.foreground", Str("#565f89")))
    @@ ("text.accent" :> Get(colors, "foreground", Str("#c0caf5")))
    @@ ("text.placeholder" :> Get(colors, "muted.foreground", Str("#565f89")))
    @@ ("text.disabled" :> Get(colors, "muted.foreground", Str("#565f89")))
    @@ ("border" :> Get(colors, "border", Str("#292e42")))
    @@ ("border.variant" :> Get(colors, "border", Str("#292e42")))
    @@ ("border.focused" :> Get(colors, "primary.background", Str("#7aa2f7")))
    @@ ("border.selected" :> Get(colors, "primary.background", Str("#7aa2f7")))
    @@ ("border.disabled" :>
            Get(colors, "input.border", Get(colors, "border", Str("#292e42"))))
    @@ ("border.transparent" :> None)
    @@ ("panel.background" :>
            Get(colors, "panel.background",
                Get(colors, "muted.background", Str("#292e42"))))
    @@ ("panel.focused_border" :> Get(colors, "primary.background", Str("#7aa2f7")))
    @@ ("panel.indent_guide" :> Get(colors, "muted.background", Str("#292e42")))
    @@ ("panel.indent_guide_active" :>
            Get(colors, "primary.background", Str("#7aa2f7")))
    @@ ("elevated_surface.background" :>
            Get(colors, "popover.background",
                Get(colors, "background", Str("#1a1b26"))))
    @@ ("surface.background" :> Get(colors, "muted.background", Str("#292e42")))
    @@ ("tab_bar.background" :>
            Get(colors, "tab_bar.background",
                Get(colors, "title_bar.background", Str("#161720"))))
    @@ ("tab.active_background" :>
            Get(colors, "tab.active.background",
                Get(colors, "background", Str("#1a1b26"))))
    @@ ("tab.inactive_background" :>
            Get(colors, "secondary.background",
                Get(colors, "muted.background", Str("#292e42"))))
    @@ ("tab.text" :>
            Get(colors, "tab.foreground",
                Get(colors, "muted.foreground", Str("#565f89"))))
    @@ ("tab.active_text" :>
            Get(colors, "tab.active.foreground",
                Get(colors, "foreground", Str("#c0caf5"))))
    @@ ("title_bar.background" :> Get(colors, "title_bar.background", Str("#161720")))
    @@ ("title_bar.inactive_background" :>
            Get(colors, "title_bar.background", Str("#161720")))
    @@ ("toolbar.background" :>
            Get(colors, "panel.background",
                Get(colors, "muted.background", Str("#292e42"))))
    @@ ("status_bar.background" :> Get(colors, "title_bar.background", Str("#161720")))
    @@ ("icon" :> Get(colors, "foreground", Str("#c0caf5")))
    @@ ("icon.muted" :> Get(colors, "muted.foreground", Str("#565f89")))
    @@ ("icon.accent" :> Get(colors, "primary.background", Str("#7aa2f7")))
    @@ ("icon.disabled" :> Get(colors, "muted.foreground", Str("#565f89")))
    @@ ("icon.placeholder" :> Get(colors, "muted.foreground", Str("#565f89")))
    @@ ("element.background" :>
            Get(colors, "secondary.background",
                Get(colors, "muted.background", Str("#292e42"))))
    @@ ("element.hover" :> Get(colors, "secondary.hover.background", Str("#31374f")))
    @@ ("element.active" :> Get(colors, "primary.background", Str("#7aa2f7")))
    @@ ("element.selected" :> Get(colors, "list.active.background", Str("#7aa2f722")))
    @@ ("element.disabled" :> Get(colors, "muted.foreground", Str("#565f89")))
    @@ ("ghost_element.hover" :>
            Get(colors, "list.active.background", Str("#7aa2f711")))
    @@ ("ghost_element.active" :>
            Get(colors, "list.active.background", Str("#7aa2f722")))
    @@ ("ghost_element.selected" :>
            Get(colors, "list.active.background", Str("#7aa2f722")))
    @@ ("ghost_element.disabled" :> Get(colors, "muted.foreground", Str("#565f89")))
    @@ ("drop_target.background" :>
            Get(colors, "list.active.background", Str("#7aa2f722")))
    @@ ("link_text.hover" :>
            Get(colors, "link.hover.foreground",
                Get(colors, "link.foreground", Str("#7aa2f7"))))
    @@ ("scrollbar.track.background" :>
            Get(colors, "scrollbar.background", Str("#1a1b2600")))
    @@ ("scrollbar.track.border" :> None)
    @@ ("scrollbar.thumb.background" :>
            Get(colors, "scrollbar.thumb.background", Str("#414868")))
    @@ ("scrollbar.thumb.border" :> None)
    @@ ("scrollbar.thumb.hover_background" :>
            Get(colors, "primary.background", Str("#7aa2f7")))

\* The editor part of `style`, resolved from `highlight` and `colors`.
editor_style(colors, highlight) ==
    ("editor.background" :>
            Get(highlight, "editor.background",
                Get(colors, "background", Str("#1a1b26"))))
    @@ ("editor.foreground" :>
            Get(highlight, "editor.foreground",
                Get(colors, "foreground", Str("#c0caf5"))))
    @@ ("editor.gutter.background" :>
            Get(highlight, "editor.background",
                Get(colors, "background", Str("#1a1b26"))))
    @@ ("editor.line_number" :> Get(highlight, "editor.line_number", Str("#565f89")))
    @@ ("editor.active_line_number" :>
            Get(highlight, "editor.active_line_number", Str("#c0caf5")))
    @@ ("editor.active_line.background" :>
            Get(highlight, "editor.active_line.background", Str("#292e42")))
    @@ ("editor.highlighted_line.background" :>
            Get(highlight, "editor.active_line.background", Str("#292e42")))
    @@ ("editor.indent_guide" :> Get(colors, "muted.background", Str("#292e42")))
    @@ ("editor.indent_guide_active" :>
            Get(colors, "primary.background", Str("#7aa2f7")))
    @@ ("editor.wrap_guide" :> Get(colors, "muted.background", Str("#292e42")))
    @@ ("editor.active_wrap_guide" :>
            Get(colors, "primary.background", Str("#7aa2f7")))
    @@ ("editor.invisible" :> Get(colors, "muted.foreground", Str("#565f89")))
    @@ ("editor.document_highlight.read_background" :>
            Get(colors, "list.active.background", Str("#7aa2f711")))
    @@ ("editor.document_highlight.write_background" :>
            Get(colors, "list.active.background", Str("#7aa2f722")))
    @@ ("editor.document_highlight.bracket_background" :>
            Get(colors, "list.active.background", Str("#7aa2f722")))
    @@ ("search.match_background" :> Str("#e0af6844"))

\* highlight.get(bg, f"{highlight.get(base, default)}11") with the alpha suffix
\* put on the literal default instead of on the resolved base colour.
alpha_background_of_default(highlight, bg, base, default) ==
    Get(highlight, bg, Str(default \o "11"))

\* highlight.get(bg, f"{highlight.get(base, default)}11"): the background of a
\* status category that derives it from the base colour.
alpha_background(highlight, bg, base, default) ==
    Get(highlight, bg, Str(Format(Get(highlight, base, Str(default))) \o "11"))

\* The status (diagnostic) part of `style`, resolved from `highlight`.
status_style(highlight) ==
    ("conflict" :> Get(highlight, "conflict", Str("#f7768e")))
    @@ ("conflict.background" :>
            alpha_background(highlight, "conflict.background", "conflict", "#f7768e"))
    @@ ("conflict.border" :>
            Get(highlight, "conflict.border", Get(highlight, "conflict", Str("#f7768e"))))
    @@ ("created" :> Get(highlight, "created", Str("#9ece6a")))
    @@ ("created.background" :>
            alpha_background(highlight, "created.background", "created", "#9ece6a"))
    @@ ("created.border" :>
            Get(highlight, "created.border", Get(highlight, "created", Str("#9ece6a"))))
    @@ ("deleted" :> Get(highlight, "deleted", Str("#f7768e")))
    @@ ("deleted.background" :>
            alpha_background(highlight, "deleted.background", "deleted", "#f7768e"))
    @@ ("deleted.border" :>
            Get(highlight, "deleted.border", Get(highlight, "deleted", Str("#f7768e"))))
    @@ ("error" :> Get(highlight, "error", Str("#f7768e")))
    @@ ("error.background" :>
            alpha_background(highlight, "error.background", "error", "#f7768e"))
    @@ ("error.border" :>
            Get(highlight, "error.border", Get(highlight, "error", Str("#f7768e"))))
    @@ ("hidden" :> Get(highlight, "hidden", Str("#565f89")))
    @@ ("hidden.background" :> Get(highlight, "hidden.background", None))
    @@ ("hidden.border" :>
            Get(highlight, "hidden.border", Get(highlight, "hidden", Str("#565f89"))))
    @@ ("hint" :> Get(highlight, "hint", Str("#7dcfff")))
    @@ ("hint.background" :>
            alpha_background(highlight, "hint.background", "hint", "#7dcfff"))
    @@ ("hint.border" :>
            Get(highlight, "hint.border", Get(highlight, "hint", Str("#7dcfff"))))
    @@ ("ignored" :> Get(highlight, "ignored", Str("#565f89")))
    @@ ("ignored.background" :> Get(highlight, "ignored.background", None))
    @@ ("ignored.border" :>
            Get(highlight, "ignored.border", Get(highlight, "ignored", Str("#565f89"))))
    @@ ("info" :> Get(highlight, "info", Str("#7aa2f7")))
    @@ ("info.background" :>
            alpha_background(highlight, "info.background", "info", "#7aa2f7"))
    @@ ("info.border" :>
            Get(highlight, "info.border", Get(highlight, "info", Str("#7aa2f7"))))
    @@ ("modified" :> Get(highlight, "modified", Str("#e0af68")))
    @@ ("modified.background" :>
            alpha_background(highlight, "modified.background", "modified", "#e0af68"))
    @@ ("modified.border" :>
            Get(highlight, "modified.border", Get(highlight, "modified", Str("#e0af68"))))
    @@ ("predictive" :> Get(highlight, "predictive", Str("#565f89")))
    @@ ("predictive.background" :> Get(highlight, "predictive.background", None))
    @@ ("predictive.border" :>
            Get(highlight, "predictive.border",
                Get(highlight, "predictive", Str("#565f89"))))
    @@ ("renamed" :> Get(highlight, "renamed", Str("#7aa2f7")))
    @@ ("renamed.background" :>
            alpha_background(highlight, "renamed.background", "renamed", "#7aa2f7"))
    @@ ("renamed.border" :>
            Get(highlight, "renamed.border", Get(highlight, "renamed", Str("#7aa2f7"))))
    @@ ("success" :> Get(highlight, "success", Str("#9ece6a")))
    @@ ("success.background" :>
            alpha_background(highlight, "success.background", "success", "#9ece6a"))
    @@ ("success.border" :>
            Get(highlight, "success.border", Get(highlight, "success", Str("#9ece6a"))))
    @@ ("unreachable" :> Get(highlight, "unreachable", Str("#565f89")))
    @@ ("unreachable.background" :> Get(highlight, "unreachable.background", None))
    @@ ("unreachable.border" :>
            Get(highlight, "unreachable.border",
                Get(highlight, "unreachable", Str("#565f89"))))
    @@ ("warning" :> Get(highlight, "warning", Str("#e0af68")))
    @@ ("warning.background" :>
            alpha_background(highlight, "warning.background", "warning", "#e0af68"))
    @@ ("warning.border" :>
            Get(highlight, "warning.border", Get(highlight, "warning", Str("#e0af68"))))

\* One entry of the "players" list.
player(cursor, selection) ==
    [cursor |-> Str(cursor), background |-> Str(cursor), selection |-> Str(selection)]

\* The literal "players" list.
players ==
    << player("#7aa2f7", "#364A82"),
       player("#9ece6a", "#4A572A"),
       player("#e0af68", "#774A1A"),
       player("#f7768e", "#7F3A3A"),
       player("#bb9af7", "#5A4A7A"),
       player("#7dcfff", "#2A4A5A") >>

\* The dict bound to `style`, with "border.transparent" taken from the input.
style_transparent_from_input(colors, highlight) ==
    ("border.transparent" :> Get(colors, "border", None))
    @@ ui_style(colors)
    @@ editor_style(colors, highlight)
    @@ status_style(highlight)
    @@ ("syntax" :> convert_syntax(Get(highlight, "syntax", EmptyMap)))
    @@ ("players" :> players)

\* The dict bound to `style` in convert_theme.
style(colors, highlight) ==
    ui_style(colors)
    @@ editor_style(colors, highlight)
    @@ status_style(highlight)
    @@ ("syntax" :> convert_syntax(Get(highlight, "syntax", EmptyMap)))
    @@ ("players" :> players)

\* appearance, with the test made on "dark" instead of on "light".
appearance_unless_dark(theme) ==
    LET mode == Get(theme, "mode", Str("dark"))
    IN  IF mode = Str("dark") THEN Str("dark") ELSE Str("light")

\* mode = old_theme.get("mode", "dark"); "light" if mode == "light" else "dark".
appearance(theme) ==
    LET mode == Get(theme, "mode", Str("dark"))
    IN  IF mode = Str("light") THEN Str("light") ELSE Str("dark")

\* convert_theme(old_theme) for a dict old_theme.
convert_theme(theme) ==
    LET colors == Get(theme, "colors", EmptyMap)
        highlight == Get(theme, "highlight", EmptyMap)
    IN  [name |-> Get(theme, "name", Str("Unknown")),
         appearance |-> appearance(theme),
         style |-> style(colors, highlight)]

-----------------------------------------------------------------------------
(* convert_theme: the fallback chains and the literal defaults as tables *)

\* convert_theme: the candidate keys of each style field that is resolved by
\* nested get calls alone, in the order the calls try them.
Chains ==
    ("background" :> << <<"colors", "background">> >>)
    @@ ("text" :> << <<"colors", "foreground">> >>)
    @@ ("text.muted" :> << <<"colors", "muted.foreground">> >>)
    @@ ("text.accent" :> << <<"colors", "foreground">> >>)
    @@ ("text.placeholder" :> << <<"colors", "muted.foreground">> >>)
    @@ ("text.disabled" :> << <<"colors", "muted.foreground">> >>)
    @@ ("border" :> << <<"colors", "border">> >>)
    @@ ("border.variant" :> << <<"colors", "border">> >>)
    @@ ("border.focused" :> << <<"colors", "primary.background">> >>)
    @@ ("border.selected" :> << <<"colors", "primary.background">> >>)
    @@ ("border.disabled" :>
            << <<"colors", "input.border">>, <<"colors", "border">> >>)
    @@ ("panel.background" :>
            << <<"colors", "panel.background">>, <<"colors", "muted.background">> >>)
    @@ ("panel.focused_border" :> << <<"colors", "primary.background">> >>)
    @@ ("panel.indent_guide" :> << <<"colors", "muted.background">> >>)
    @@ ("panel.indent_guide_active" :> << <<"colors", "primary.background">> >>)
    @@ ("elevated_surface.background" :>
            << <<"colors", "popover.background">>, <<"colors", "background">> >>)
    @@ ("surface.background" :> << <<"colors", "muted.background">> >>)
    @@ ("tab_bar.background" :>
            << <<"colors", "tab_bar.background">>, <<"colors", "title_bar.background">> >>)
    @@ ("tab.active_background" :>
            << <<"colors", "tab.active.background">>, <<"colors", "background">> >>)
    @@ ("tab.inactive_background" :>
            << <<"colors", "secondary.background">>, <<"colors", "muted.background">> >>)
    @@ ("tab.text" :>
            << <<"colors", "tab.foreground">>, <<"colors", "muted.foreground">> >>)
    @@ ("tab.active_text" :>
            << <<"colors", "tab.active.foreground">>, <<"colors", "foreground">> >>)
    @@ ("title_bar.background" :> << <<"colors", "title_bar.background">> >>)
    @@ ("title_bar.inactive_background" :> << <<"colors", "title_bar.background">> >>)
    @@ ("toolbar.background" :>
            << <<"colors", "panel.background">>, <<"colors", "muted.background">> >>)
    @@ ("status_bar.background" :> << <<"colors", "title_bar.background">> >>)
    @@ ("icon" :> << <<"colors", "foreground">> >>)
    @@ ("icon.muted" :> << <<"colors", "muted.foreground">> >>)
    @@ ("icon.accent" :> << <<"colors", "primary.background">> >>)
    @@ ("icon.disabled" :> << <<"colors", "muted.foreground">> >>)
    @@ ("icon.placeholder" :> << <<"colors", "muted.foreground">> >>)
    @@ ("element.background" :>
            << <<"colors", "secondary.background">>, <<"colors", "muted.background">> >>)
    @@ ("element.hover" :> << <<"colors", "secondary.hover.background">> >>)
    @@ ("element.active" :> << <<"colors", "primary.background">> >>)
    @@ ("element.selected" :> << <<"colors", "list.active.background">> >>)
    @@ ("element.disabled" :> << <<"colors", "muted.foreground">> >>)
    @@ ("ghost_element.hover" :> << <<"colors", "list.active.background">> >>)
    @@ ("ghost_element.active" :> << <<"colors", "list.active.background">> >>)
    @@ ("ghost_element.selected" :> << <<"colors", "list.active.background">> >>)
    @@ ("ghost_element.disabled" :> << <<"colors", "muted.foreground">> >>)
    @@ ("drop_target.background" :> << <<"colors", "list.active.background">> >>)
    @@ ("link_text.hover" :>
            << <<"colors", "link.hover.foreground">>, <<"colors", "link.foreground">> >>)
    @@ ("scrollbar.track.background" :> << <<"colors", "scrollbar.background">> >>)
    @@ ("scrollbar.thumb.background" :>
            << <<"colors", "scrollbar.thumb.background">> >>)
    @@ ("scrollbar.thumb.hover_background" :> << <<"colors", "primary.background">> >>)
    @@ ("editor.background" :>
            << <<"highlight", "editor.background">>, <<"colors", "background">> >>)
    @@ ("editor.foreground" :>
            << <<"highlight", "editor.foreground">>, <<"colors", "foreground">> >>)
    @@ ("editor.gutter.background" :>
            << <<"highlight", "editor.background">>, <<"colors", "background">> >>)
    @@ ("editor.line_number" :> << <<"highlight", "editor.line_number">> >>)
    @@ ("editor.active_line_number" :>
            << <<"highlight", "editor.active_line_number">> >>)
    @@ ("editor.active_line.background" :>
            << <<"highlight", "editor.active_line.background">> >>)
    @@ ("editor.highlighted_line.background" :>
            << <<"highlight", "editor.active_line.background">> >>)
    @@ ("editor.indent_guide" :> << <<"colors", "muted.background">> >>)
    @@ ("editor.indent_guide_active" :> << <<"colors", "primary.background">> >>)
    @@ ("editor.wrap_guide" :> << <<"colors", "muted.background">> >>)
    @@ ("editor.active_wrap_guide" :> << <<"colors", "primary.background">> >>)
    @@ ("editor.invisible" :> << <<"colors", "muted.foreground">> >>)
    @@ ("editor.document_highlight.read_background" :>
            << <<"colors", "list.active.background">> >>)
    @@ ("editor.document_highlight.write_background" :>
            << <<"colors", "list.active.background">> >>)
    @@ ("editor.document_highlight.bracket_background" :>
            << <<"colors", "list.active.background">> >>)
    @@ ("conflict" :> << <<"highlight", "conflict">> >>)
    @@ ("conflict.border" :>
            << <<"highlight", "conflict.border">>, <<"highlight", "conflict">> >>)
    @@ ("created" :> << <<"highlight", "created">> >>)
    @@ ("created.border" :>
            << <<"highlight", "created.border">>, <<"highlight", "created">> >>)
    @@ ("deleted" :> << <<"highlight", "deleted">> >>)
    @@ ("deleted.border" :>
            << <<"highlight", "deleted.border">>, <<"highlight", "deleted">> >>)
    @@ ("error" :> << <<"highlight", "error">> >>)
    @@ ("error.border" :>
            << <<"highlight", "error.border">>, <<"highlight", "error">> >>)
    @@ ("hidden" :> << <<"highlight", "hidden">> >>)
    @@ ("hidden.background" :> << <<"highlight", "hidden.background">> >>)
    @@ ("hidden.border" :>
            << <<"highlight", "hidden.border">>, <<"highlight", "hidden">> >>)
    @@ ("hint" :> << <<"highlight", "hint">> >>)
    @@ ("hint.border" :> << <<"highlight", "hint.border">>, <<"highlight", "hint">> >>)
    @@ ("ignored" :> << <<"highlight", "ignored">> >>)
    @@ ("ignored.background" :> << <<"highlight", "ignored.background">> >>)
    @@ ("ignored.border" :>
            << <<"highlight", "ignored.border">>, <<"highlight", "ignored">> >>)
    @@ ("info" :> << <<"highlight", "info">> >>)
    @@ ("info.border" :> << <<"highlight", "info.border">>, <<"highlight", "info">> >>)
    @@ ("modified" :> << <<"highlight", "modified">> >>)
    @@ ("modified.border" :>
            << <<"highlight", "modified.border">>, <<"highlight", "modified">> >>)
    @@ ("predictive" :> << <<"highlight", "predictive">> >>)
    @@ ("predictive.background" :> << <<"highlight", "predictive.background">> >>)
    @@ ("predictive.border" :>
            << <<"highlight", "predictive.border">>, <<"highlight", "predictive">> >>)
    @@ ("renamed" :> << <<"highlight", "renamed">> >>)
    @@ ("renamed.border" :>
            << <<"highlight", "renamed.border">>, <<"highlight", "renamed">> >>)
    @@ ("success" :> << <<"highlight", "success">> >>)
    @@ ("success.border" :>
            << <<"highlight", "success.border">>, <<"highlight", "success">> >>)
    @@ ("unreachable" :> << <<"highlight", "unreachable">> >>)
    @@ ("unreachable.background" :> << <<"highlight", "unreachable.background">> >>)
    @@ ("unreachable.border" :>
            << <<"highlight", "unreachable.border">>, <<"highlight", "unreachable">> >>)
    @@ ("warning" :> << <<"highlight", "warning">> >>)
    @@ ("warning.border" :>
            << <<"highlight", "warning.border">>, <<"highlight", "warning">> >>)

\* convert_theme: the style of a variant with no `colors` and no `highlight`,
\* every field at the literal default the code gives it.
LiteralDefaultStyle ==
    ("background" :> Str("#1a1b26"))
    @@ ("text" :> Str("#c0caf5"))
    @@ ("text.muted" :> Str("#565f89"))
    @@ ("text.accent" :> Str("#c0caf5"))
    @@ ("text.placeholder" :> Str("#565f89"))
    @@ ("text.disabled" :> Str("#565f89"))
    @@ ("border" :> Str("#292e42"))
    @@ ("border.variant" :> Str("#292e42"))
    @@ ("border.focused" :> Str("#7aa2f7"))
    @@ ("border.selected" :> Str("#7aa2f7"))
    @@ ("border.disabled" :> Str("#292e42"))
    @@ ("border.transparent" :> None)
    @@ ("panel.background" :> Str("#292e42"))
    @@ ("panel.focused_border" :> Str("#7aa2f7"))
    @@ ("panel.indent_guide" :> Str("#292e42"))
    @@ ("panel.indent_guide_active" :> Str("#7aa2f7"))
    @@ ("elevated_surface.background" :> Str("#1a1b26"))
    @@ ("surface.background" :> Str("#292e42"))
    @@ ("tab_bar.background" :> Str("#161720"))
    @@ ("tab.active_background" :> Str("#1a1b26"))
    @@ ("tab.inactive_background" :> Str("#292e42"))
    @@ ("tab.text" :> Str("#565f89"))
    @@ ("tab.active_text" :> Str("#c0caf5"))
    @@ ("title_bar.background" :> Str("#161720"))
    @@ ("title_bar.inactive_background" :> Str("#161720"))
    @@ ("toolbar.background" :> Str("#292e42"))
    @@ ("status_bar.background" :> Str("#161720"))
    @@ ("icon" :> Str("#c0caf5"))
    @@ ("icon.muted" :> Str("#565f89"))
    @@ ("icon.accent" :> Str("#7aa2f7"))
    @@ ("icon.disabled" :> Str("#565f89"))
    @@ ("icon.placeholder" :> Str("#565f89"))
    @@ ("element.background" :> Str("#292e42"))
    @@ ("element.hover" :> Str("#31374f"))
    @@ ("element.active" :> Str("#7aa2f7"))
    @@ ("element.selected" :> Str("#7aa2f722"))
    @@ ("element.disabled" :> Str("#565f89"))
    @@ ("ghost_element.hover" :> Str("#7aa2f711"))
    @@ ("ghost_element.active" :> Str("#7aa2f722"))
    @@ ("ghost_element.selected" :> Str("#7aa2f722"))
    @@ ("ghost_element.disabled" :> Str("#565f89"))
    @@ ("drop_target.background" :> Str("#7aa2f722"))
    @@ ("link_text.hover" :> Str("#7aa2f7"))
    @@ ("scrollbar.track.background" :> Str("#1a1b2600"))
    @@ ("scrollbar.track.border" :> None)
    @@ ("scrollbar.thumb.background" :> Str("#414868"))
    @@ ("scrollbar.thumb.border" :> None)
    @@ ("scrollbar.thumb.hover_background" :> Str("#7aa2f7"))
    @@ ("editor.background" :> Str("#1a1b26"))
    @@ ("editor.foreground" :> Str("#c0caf5"))
    @@ ("editor.gutter.background" :> Str("#1a1b26"))
    @@ ("editor.line_number" :> Str("#565f89"))
    @@ ("editor.active_line_number" :> Str("#c0caf5"))
    @@ ("editor.active_line.background" :> Str("#292e42"))
    @@ ("editor.highlighted_line.background" :> Str("#292e42"))
    @@ ("editor.indent_guide" :> Str("#292e42"))
    @@ ("editor.indent_guide_active" :> Str("#7aa2f7"))
    @@ ("editor.wrap_guide" :> Str("#292e42"))
    @@ ("editor.active_wrap_guide" :> Str("#7aa2f7"))
    @@ ("editor.invisible" :> Str("#565f89"))
    @@ ("editor.document_highlight.read_background" :> Str("#7aa2f711"))
    @@ ("editor.document_highlight.write_background" :> Str("#7aa2f722"))
    @@ ("editor.document_highlight.bracket_background" :> Str("#7aa2f722"))
    @@ ("search.match_background" :> Str("#e0af6844"))
    @@ ("conflict" :> Str("#f7768e"))
    @@ ("conflict.background" :> Str("#f7768e11"))
    @@ ("conflict.border" :> Str("#f7768e"))
    @@ ("created" :> Str("#9ece6a"))
    @@ ("created.background" :> Str("#9ece6a11"))
    @@ ("created.border" :> Str("#9ece6a"))
    @@ ("deleted" :> Str("#f7768e"))
    @@ ("deleted.background" :> Str("#f7768e11"))
    @@ ("deleted.border" :> Str("#f7768e"))
    @@ ("error" :> Str("#f7768e"))
    @@ ("error.background" :> Str("#f7768e11"))
    @@ ("error.border" :> Str("#f7768e"))
    @@ ("hidden" :> Str("#565f89"))
    @@ ("hidden.background" :> None)
    @@ ("hidden.border" :> Str("#565f89"))
    @@ ("hint" :> Str("#7dcfff"))
    @@ ("hint.background" :> Str("#7dcfff11"))
    @@ ("hint.border" :> Str("#7dcfff"))
    @@ ("ignored" :> Str("#565f89"))
    @@ ("ignored.background" :> None)
    @@ ("ignored.border" :> Str("#565f89"))
    @@ ("info" :> Str("#7aa2f7"))
    @@ ("info.background" :> Str("#7aa2f711"))
    @@ ("info.border" :> Str("#7aa2f7"))
    @@ ("modified" :> Str("#e0af68"))
    @@ ("modified.background" :> Str("#e0af6811"))
    @@ ("modified.border" :> Str("#e0af68"))
    @@ ("predictive" :> Str("#565f89"))
    @@ ("predictive.background" :> None)
    @@ ("predictive.border" :> Str("#565f89"))
    @@ ("renamed" :> Str("#7aa2f7"))
    @@ ("renamed.background" :> Str("#7aa2f711"))
    @@ ("renamed.border" :> Str("#7aa2f7"))
    @@ ("success" :> Str("#9ece6a"))
    @@ ("success.background" :> Str("#9ece6a11"))
    @@ ("success.border" :> Str("#9ece6a"))
    @@ ("unreachable" :> Str("#565f89"))
    @@ ("unreachable.background" :> None)
    @@ ("unreachable.border" :> Str("#565f89"))
    @@ ("warning" :> Str("#e0af68"))
    @@ ("warning.background" :> Str("#e0af6811"))
    @@ ("warning.border" :> Str("#e0af68"))
    @@ ("syntax" :> EmptyMap)
    @@ ("players" :> players)

-----------------------------------------------------------------------------
(* Inputs of the pure functions *)

\* The most keys a generated theme variant holds, over its groups together.
MaxKeys == 2

\* A non-dict value of a raw syntax mapping or of a `themes` list.
Junk(kind) == [kind |-> kind, m |-> EmptyMap]

\* A dict value of a raw syntax mapping or of a `themes` list.
Map(m) == [kind |-> "map", m |-> m]

\* The functions from a subset of keys to vals: the dicts over those keys.
Dicts(keys, vals) ==
    UNION {[S -> vals] : S \in SUBSET keys}

SyntaxTokens == {"keyword", "comment"}

\* The style attributes a syntax token may carry in a source file.
SyntaxAttrs ==
    {c @@ fs @@ fw @@ x :
        c \in Dicts({"color"}, {Str("#ff0000"), Str("")}),
        fs \in Dicts({"font_style"}, {Str("italic"), Str(""), None}),
        fw \in Dicts({"font_weight"}, {Num("700"), Num("0"), Str("bold"), False}),
        x \in Dicts({"background_color"}, {Str("#000000")})}

\* The values a raw syntax mapping may hold for a token.
RawSyntaxValues ==
    {Junk("str"), Junk("num"), Junk("null"), Junk("list")}
    \cup {Map(a) : a \in SyntaxAttrs}

\* The keys convert_theme reads in `colors`.
ColorKeys ==
    {"background", "foreground", "muted.foreground", "border",
     "primary.background", "input.border", "panel.background",
     "muted.background", "popover.background", "tab_bar.background",
     "title_bar.background", "tab.active.background", "secondary.background",
     "tab.foreground", "tab.active.foreground", "secondary.hover.background",
     "list.active.background", "link.hover.foreground", "link.foreground",
     "scrollbar.background", "scrollbar.thumb.background"}

\* The status categories that derive their background from the base colour.
AlphaCategories ==
    {"conflict", "created", "deleted", "error", "hint", "info", "modified",
     "renamed", "success", "warning"}

\* The status categories whose background has no default.
NullCategories == {"hidden", "ignored", "predictive", "unreachable"}

Categories == AlphaCategories \cup NullCategories

\* The keys of the editor that convert_theme reads in `highlight`.
EditorKeys ==
    {"editor.background", "editor.foreground", "editor.line_number",
     "editor.active_line_number", "editor.active_line.background"}

\* The flat keys convert_theme reads in `highlight`.
HighlightKeys ==
    EditorKeys
    \cup Categories
    \cup {c \o ".background" : c \in Categories}
    \cup {c \o ".border" : c \in Categories}

\* One raw syntax mapping, with a dict entry and a non-dict entry.
SampleSyntax ==
    ("keyword" :> Map([color |-> Str("#ff0000"), font_style |-> Str("italic")]))
    @@ ("comment" :> Junk("str"))

\* The single settings a generated variant is made of: <<group, key, value>>,
\* the group "" for a key of the variant itself.  GeneralEntries are the
\* settings outside the status categories, StatusEntries those of the
\* categories.
GeneralEntries ==
    {<<"colors", k, v>> : k \in ColorKeys, v \in {Str(""), Str("#a1b2c3")}}
    \cup {<<"highlight", k, v>> : k \in EditorKeys, v \in {Str(""), Str("#d4e5f6")}}
    \cup {<<"highlight", "syntax", SampleSyntax>>}
    \cup {<<"", "mode", v>> : v \in {Str("light"), Str("dark"), Str("Light"), Str(""), None}}
    \cup {<<"", "name", Str("V1")>>}

StatusEntries ==
    {<<"highlight", k, v>> :
        k \in HighlightKeys \ EditorKeys, v \in {Str(""), Str("#d4e5f6")}}

\* The variant th with the setting e made in it.
Put(th, e) ==
    IF e[1] = ""
    THEN (e[2] :> e[3]) @@ th
    ELSE (e[1] :> ((e[2] :> e[3]) @@ Get(th, e[1], EmptyMap))) @@ th

RECURSIVE Themes(_, _)
\* The variants made of at most n settings of the set entries.
Themes(n, entries) ==
    IF n = 0
    THEN {EmptyMap}
    ELSE LET P == Themes(n - 1, entries)
         IN  P \cup {Put(th, e) : th \in P, e \in entries}

-----------------------------------------------------------------------------
(* The pure functions as state machines *)

\* The batch driver's variables while only a pure function is exercised.
DriverIdle ==
    /\ files = EmptyMap
    /\ pc = "idle"
    /\ todo = {}
    /\ cur = ""
    /\ old_data = EmptyMap
    /\ new_data = EmptyMap
    /\ idx = 0
    /\ runs = 0
    /\ at_start = EmptyMap
    /\ migrated = EmptyMap

driver_vars ==
    <<files, pc, todo, cur, old_data, new_data, idx, runs, at_start, migrated>>

InitSyntax ==
    /\ old_syntax \in Dicts(SyntaxTokens, RawSyntaxValues)
    /\ syntax = NotRun
    /\ old_theme = EmptyMap
    /\ new_theme = NotRun
    /\ DriverIdle

\* The call convert_syntax(old_syntax).
ConvertSyntax ==
    /\ syntax = NotRun
    /\ syntax' = convert_syntax(old_syntax)
    /\ UNCHANGED <<old_syntax, old_theme, new_theme, driver_vars>>

NextSyntax == ConvertSyntax

SpecSyntax == InitSyntax /\ [][NextSyntax]_vars

\* The argument is any variant made of at most MaxKeys settings, all of them
\* outside the status categories or all of them in the status categories.
InitTheme ==
    /\ \E entries \in {GeneralEntries, StatusEntries} :
          \E th \in Themes(MaxKeys - 1, entries) :
              \E e \in entries : old_theme \in {th, Put(th, e)}
    /\ new_theme = NotRun
    /\ old_syntax = EmptyMap
    /\ syntax = NotRun
    /\ DriverIdle

\* The call convert_theme(old_theme).
ConvertTheme ==
    /\ new_theme = NotRun
    /\ new_theme' = convert_theme(old_theme)
    /\ UNCHANGED <<old_theme, old_syntax, syntax, driver_vars>>

NextTheme == ConvertTheme

SpecTheme == InitTheme /\ [][NextTheme]_vars

-----------------------------------------------------------------------------
(* convert_theme_file and main: the batch driver *)

\* The most elements a generated `themes` list holds.
MaxThemes == 2

\* The most runs of the script in one behaviour.
MaxRuns == 2

\* A JSON list, and a JSON value of another kind where a list is expected.
List(items) == [kind |-> "list", items |-> items]
NotList(kind) == [kind |-> kind, items |-> <<>>]

\* main: the names of the files that are skipped.
already_converted ==
    {"catppuccin.json", "gruvbox.json", "tokyonight.json", "solarized.json",
     "everforest.json"}

\* old_data["themes"]: no default for a missing key, so that the loop fails.
themes_required(data) ==
    Get(data, "themes", NotList("null"))

\* old_data.get("themes", []).
themes_of(data) ==
    Get(data, "themes", List(<<>>))

\* new_data as convert_theme_file first builds it.
new_document(data) ==
    ("$schema" :> Str("https://zed.dev/schema/themes/v0.2.0.json"))
    @@ ("name" :> Get(data, "name", Str("Unknown")))
    @@ ("author" :> Get(data, "author", Str("Unknown")))
    @@ ("themes" :> List(<<>>))

\* Two source variants of the same name and a value that is no dict.
VLight ==
    [name |-> Str("V1"), mode |-> Str("light"),
     colors |-> [background |-> Str("#fff")], highlight |-> EmptyMap]
VDark ==
    [name |-> Str("V1"), colors |-> [border |-> Str("#000")]]
ThemeElements == {Map(VLight), Map(VDark), Junk("str")}

\* The source documents with at most n elements in `themes`, one with no
\* `themes` key and one whose `themes` is null.
Documents(n) ==
    {[name |-> Str("T")], [name |-> Str("T"), themes |-> NotList("null")]}
    \cup {[name |-> Str("T"), author |-> Str("A"), themes |-> List(items)] :
            items \in UNION {[1..k -> ThemeElements] : k \in 0..n}}

\* A file main skips: a document already in the target format.
SkippedDocument ==
    [new_document([name |-> Str("Gruvbox")]) EXCEPT
        !["themes"] = List(<<Map(convert_theme(VLight))>>)]

\* The directory: two source files and a file of the skip-list.  A file holds
\* the document json.load reads from it and json.dump wrote to it: the
\* documents are dicts, lists, strings and nulls, which the two functions
\* carry over unchanged.
Init ==
    /\ \E a, b \in Documents(MaxThemes) :
          files = ("a.json" :> a) @@ ("b.json" :> b)
                  @@ ("gruvbox.json" :> SkippedDocument)
    /\ pc = "idle"
    /\ todo = {}
    /\ cur = ""
    /\ old_data = EmptyMap
    /\ new_data = EmptyMap
    /\ idx = 0
    /\ runs = 0
    /\ at_start = files
    /\ migrated = EmptyMap
    /\ old_syntax = EmptyMap
    /\ syntax = NotRun
    /\ old_theme = EmptyMap
    /\ new_theme = NotRun

pure_vars == <<old_syntax, syntax, old_theme, new_theme>>

\* The files this run has converted and written.
ConvertedInRun ==
    {f \in (DOMAIN files \ already_converted) \ todo :
        /\ pc # "idle"
        /\ pc \in {"main", "done"} \/ f # cur}

\* The script is started: main enumerates themes_dir.glob("*.json").
StartRun ==
    /\ pc \in {"idle", "done", "crashed"}
    /\ runs < MaxRuns
    /\ runs' = runs + 1
    /\ todo' = DOMAIN files
    /\ at_start' = files
    /\ pc' = "main"
    /\ cur' = ""
    /\ old_data' = EmptyMap
    /\ new_data' = EmptyMap
    /\ idx' = 0
    /\ UNCHANGED <<files, migrated, pure_vars>>

\* main: the next file is in already_converted and is skipped.
SkipFile ==
    /\ pc = "main"
    /\ \E f \in todo \cap already_converted :
          /\ todo' = todo \ {f}
          /\ cur' = f
    /\ UNCHANGED <<files, pc, old_data, new_data, idx, runs, at_start, migrated,
                   pure_vars>>

\* main calls convert_theme_file(theme_file, theme_file), which loads the
\* file and builds new_data with an empty themes list.
LoadDocument ==
    /\ pc = "main"
    /\ \E f \in todo \ already_converted :
          /\ todo' = todo \ {f}
          /\ cur' = f
          /\ old_data' = files[f]
          /\ new_data' = new_document(files[f])
    /\ idx' = 0
    /\ pc' = "themes"
    /\ UNCHANGED <<files, runs, at_start, migrated, pure_vars>>

\* The for statement raises TypeError: `themes` is not iterable.
RaiseNotIterable ==
    /\ pc = "themes"
    /\ themes_of(old_data).kind # "list"
    /\ pc' = "crashed"
    /\ UNCHANGED <<files, todo, cur, old_data, new_data, idx, runs, at_start,
                   migrated, pure_vars>>

\* One iteration of the loop, with the converted variant put first.
ConvertNextPrepending ==
    /\ pc = "themes"
    /\ themes_of(old_data).kind = "list"
    /\ idx < Len(themes_of(old_data).items)
    /\ themes_of(old_data).items[idx + 1].kind = "map"
    /\ new_data' =
          [new_data EXCEPT !["themes"].items =
              <<Map(convert_theme(themes_of(old_data).items[idx + 1].m))>> \o @]
    /\ idx' = idx + 1
    /\ UNCHANGED <<files, pc, todo, cur, old_data, runs, at_start, migrated,
                   pure_vars>>

\* One iteration of the loop: new_data["themes"].append(convert_theme(old_theme)).
ConvertNext ==
    /\ pc = "themes"
    /\ themes_of(old_data).kind = "list"
    /\ idx < Len(themes_of(old_data).items)
    /\ themes_of(old_data).items[idx + 1].kind = "map"
    /\ new_data' =
          [new_data EXCEPT !["themes"].items =
              Append(@, Map(convert_theme(themes_of(old_data).items[idx + 1].m)))]
    /\ idx' = idx + 1
    /\ UNCHANGED <<files, pc, todo, cur, old_data, runs, at_start, migrated,
                   pure_vars>>

\* The failing iteration, with what was converted so far written out first.
RaiseNotMappingAfterWrite ==
    /\ pc = "themes"
    /\ themes_of(old_data).kind = "list"
    /\ idx < Len(themes_of(old_data).items)
    /\ themes_of(old_data).items[idx + 1].kind # "map"
    /\ files' = [files EXCEPT ![cur] = new_data]
    /\ pc' = "crashed"
    /\ UNCHANGED <<todo, cur, old_data, new_data, idx, runs, at_start,
                   migrated, pure_vars>>

\* One iteration of the loop on an element that is no dict: old_theme.get
\* raises AttributeError, which nothing catches.
RaiseNotMapping ==
    /\ pc = "themes"
    /\ themes_of(old_data).kind = "list"
    /\ idx < Len(themes_of(old_data).items)
    /\ themes_of(old_data).items[idx + 1].kind # "map"
    /\ pc' = "crashed"
    /\ UNCHANGED <<files, todo, cur, old_data, new_data, idx, runs, at_start,
                   migrated, pure_vars>>

\* The loop is over: json.dump writes new_data to output_path, and
\* convert_theme_file returns to main.
WriteFile ==
    /\ pc = "themes"
    /\ themes_of(old_data).kind = "list"
    /\ idx = Len(themes_of(old_data).items)
    /\ files' = [files EXCEPT ![cur] = new_data]
    /\ pc' = "main"
    /\ UNCHANGED <<todo, cur, old_data, new_data, idx, runs, at_start,
                   migrated, pure_vars>>

\* glob is exhausted: main returns and the run is complete.
Finish ==
    /\ pc = "main"
    /\ todo = {}
    /\ pc' = "done"
    /\ migrated' =
          [f \in DOMAIN migrated \cup ConvertedInRun |->
              IF f \in DOMAIN migrated THEN migrated[f] ELSE files[f]]
    /\ UNCHANGED <<files, todo, cur, old_data, new_data, idx, runs, at_start,
                   pure_vars>>

Next ==
    \/ StartRun
    \/ SkipFile
    \/ LoadDocument
    \/ RaiseNotIterable
    \/ ConvertNext
    \/ RaiseNotMapping
    \/ WriteFile
    \/ Finish

Spec == Init /\ [][Next]_vars

-----------------------------------------------------------------------------
(* Properties of convert_syntax *)

\* The attribute key is in the converted entry exactly when the source value
\* is present and truthy, and then with the source value.
KeptWhenTruthy(attrs, entry, key) ==
    /\ key \in DOMAIN entry <=> (key \in DOMAIN attrs /\ Truthy(attrs[key]))
    /\ key \in DOMAIN entry => entry[key] = attrs[key]

\* C6: convert_syntax returns exactly one entry per input entry whose value is
\* a mapping and none for a non-mapping value; each entry holds `color` (the
\* empty string when the source has none), `font_style` and `font_weight` only
\* when the source value is present and truthy, and no other key.
C6_SyntaxEntries ==
    syntax # NotRun =>
        /\ DOMAIN syntax = {k \in DOMAIN old_syntax : old_syntax[k].kind = "map"}
        /\ \A k \in DOMAIN syntax :
              LET attrs == old_syntax[k].m
                  entry == syntax[k]
              IN  /\ "color" \in DOMAIN entry
                  /\ entry["color"] =
                        (IF "color" \in DOMAIN attrs THEN attrs["color"] ELSE Str(""))
                  /\ KeptWhenTruthy(attrs, entry, "font_style")
                  /\ KeptWhenTruthy(attrs, entry, "font_weight")
                  /\ DOMAIN entry \subseteq {"color", "font_style", "font_weight"}

\* A converted mapping with a non-mapping entry dropped and a mapping entry
\* converted whose colour is missing, whose font_style is the empty string,
\* whose font_weight is a non-zero number and which has a key of its own.
C6_Witness ==
    /\ syntax # NotRun
    /\ DOMAIN old_syntax = {"keyword", "comment"}
    /\ old_syntax["comment"].kind = "str"
    /\ old_syntax["keyword"].kind = "map"
    /\ DOMAIN old_syntax["keyword"].m =
          {"font_style", "font_weight", "background_color"}
    /\ old_syntax["keyword"].m["font_style"] = Str("")
    /\ old_syntax["keyword"].m["font_weight"] = Num("700")
    /\ syntax = ("keyword" :> [color |-> Str(""), font_weight |-> Num("700")])

-----------------------------------------------------------------------------
(* Properties of convert_theme *)

\* The dict of a group of the argument ("colors", "highlight").
Group(theme, g) == Get(theme, g, EmptyMap)

RECURSIVE FirstPresent(_, _, _)
\* The value of the first candidate key that is present, else the default.
FirstPresent(theme, chain, default) ==
    IF chain = <<>>
    THEN default
    ELSE LET g == Group(theme, chain[1][1])
             k == chain[1][2]
         IN  IF k \in DOMAIN g
             THEN g[k]
             ELSE FirstPresent(theme, Tail(chain), default)

RECURSIVE FirstNonEmpty(_, _, _)
\* The value of the first candidate key that is present and not the empty
\* string, else the default.
FirstNonEmpty(theme, chain, default) ==
    IF chain = <<>>
    THEN default
    ELSE LET g == Group(theme, chain[1][1])
             k == chain[1][2]
         IN  IF k \in DOMAIN g /\ g[k] # Str("")
             THEN g[k]
             ELSE FirstNonEmpty(theme, Tail(chain), default)

\* C3 (as amended): every style field resolved by a fallback chain holds the
\* value of the first candidate key that is present, an empty string included,
\* and the literal default only when no candidate key is present.
C3_FirstPresentWins ==
    new_theme # NotRun =>
        \A f \in DOMAIN Chains :
            new_theme.style[f] =
                FirstPresent(old_theme, Chains[f], LiteralDefaultStyle[f])

\* C3 (as stated): every style field resolved by a fallback chain holds the
\* value of the first candidate key that is present and non-empty, and the
\* literal default otherwise.
C3_FirstNonEmptyWins ==
    new_theme # NotRun =>
        \A f \in DOMAIN Chains :
            new_theme.style[f] =
                FirstNonEmpty(old_theme, Chains[f], LiteralDefaultStyle[f])

\* colors["panel.background"] is the empty string and colors["muted.background"]
\* a colour: the converted `panel.background` is the empty string.
C3_Witness ==
    /\ new_theme # NotRun
    /\ DOMAIN Group(old_theme, "colors") = {"panel.background", "muted.background"}
    /\ old_theme["colors"]["panel.background"] = Str("")
    /\ old_theme["colors"]["muted.background"] = Str("#a1b2c3")
    /\ new_theme.style["panel.background"] = Str("")
    /\ new_theme.style["surface.background"] = Str("#a1b2c3")

\* C4: the background of a status category is the explicit override when
\* `highlight` has one; without one it is, for the ten alpha categories, the
\* base colour (highlight[c], else the literal default: the value of style[c])
\* followed by "11", and for hidden, ignored, predictive and unreachable null.
C4_StatusBackground ==
    new_theme # NotRun =>
        LET highlight == Group(old_theme, "highlight")
            st == new_theme.style
        IN  \A c \in Categories :
                LET bg == c \o ".background"
                    B == IF c \in DOMAIN highlight
                         THEN highlight[c]
                         ELSE LiteralDefaultStyle[c]
                IN  /\ st[c] = B
                    /\ st[bg] =
                          (IF bg \in DOMAIN highlight THEN highlight[bg]
                           ELSE IF c \in AlphaCategories THEN Str(B.s \o "11")
                           ELSE None)

\* highlight holds a base colour for `error` and no background override: the
\* background is that colour with "11" appended.
C4_Witness ==
    /\ new_theme # NotRun
    /\ DOMAIN Group(old_theme, "highlight") = {"error"}
    /\ old_theme["highlight"]["error"] = Str("#d4e5f6")
    /\ new_theme.style["error.background"] = Str("#d4e5f611")
    /\ new_theme.style["hidden.background"] = None

\* C5: the appearance is "light" exactly when the variant has a `mode` key
\* whose value is the string "light", and is "dark" in every other case.
C5_Appearance ==
    new_theme # NotRun =>
        /\ new_theme.appearance = Str("light") <=>
              ("mode" \in DOMAIN old_theme /\ old_theme["mode"] = Str("light"))
        /\ new_theme.appearance \in {Str("light"), Str("dark")}

\* A variant whose mode is neither "light" nor "dark" converted to "dark".
C5_Witness ==
    /\ new_theme # NotRun
    /\ "mode" \in DOMAIN old_theme
    /\ old_theme["mode"] = Str("Light")
    /\ new_theme.appearance = Str("dark")

\* The style fields that are literals in the code.
ConstantFields ==
    {"players", "search.match_background", "border.transparent",
     "scrollbar.track.border", "scrollbar.thumb.border"}

\* A variant in which every flat key convert_theme reads is set, each to a
\* value of its own, in light mode.
DenseVariant ==
    [name |-> Str("Dense"),
     mode |-> Str("light"),
     colors |-> [k \in ColorKeys |-> Str("c:" \o k)],
     highlight |-> [k \in HighlightKeys |-> Str("h:" \o k)]]

\* What convert_theme makes of the variants the others are compared with.
ReferenceStyles ==
    {convert_theme(v).style : v \in {EmptyMap, DenseVariant, [mode |-> Str("light")]}}

\* C8: the style of any variant agrees with the style of any other on
\* `players` (six entries), `search.match_background`, `border.transparent`,
\* `scrollbar.track.border` and `scrollbar.thumb.border`; and a variant with
\* empty `colors` and empty `highlight` gets every field's literal default.
C8_ConstantFields ==
    new_theme # NotRun =>
        /\ \A k \in ConstantFields :
              /\ \A ref \in ReferenceStyles : new_theme.style[k] = ref[k]
              /\ new_theme.style[k] = LiteralDefaultStyle[k]
        /\ Len(new_theme.style["players"]) = 6
        /\ (Group(old_theme, "colors") = EmptyMap
            /\ Group(old_theme, "highlight") = EmptyMap)
                => new_theme.style = LiteralDefaultStyle

\* A variant that sets a colour and a highlight key converted: its style is
\* not the default one, and its constant fields are the literals.
C8_Witness ==
    /\ new_theme # NotRun
    /\ DOMAIN Group(old_theme, "colors") = {"border"}
    /\ DOMAIN Group(old_theme, "highlight") = {"editor.background"}
    /\ new_theme.style # LiteralDefaultStyle
    /\ new_theme.style["border"] = old_theme["colors"]["border"]
    /\ new_theme.style["border.transparent"] = None
    /\ new_theme.style["players"] = players

-----------------------------------------------------------------------------
(* Properties of convert_theme_file and main *)

\* The target document of a source document that has no `themes` key.
EmptyTarget(data) ==
    [name |-> Get(data, "name", Str("Unknown")),
     author |-> Get(data, "author", Str("Unknown")),
     themes |-> List(<<>>)]
    @@ ("$schema" :> Str("https://zed.dev/schema/themes/v0.2.0.json"))

C2_AllOrNothing ==
    pc = "crashed" => files[cur] = at_start[cur] /\ files[cur] = old_data

\* The conversion failed on a later element, after a variant was converted.
C2_Witness ==
    /\ pc = "crashed"
    /\ idx >= 1
    /\ Len(new_data["themes"].items) = idx
    /\ themes_of(old_data).items[idx + 1].kind # "map"

\* C7: in the document written for a file the themes list has the length of
\* the source list and its i-th element is convert_theme of the i-th source
\* element, for every i.
C7_ThemesInOrder ==
    \A f \in ConvertedInRun :
        LET src == themes_of(at_start[f]).items
            dst == files[f]["themes"].items
        IN  /\ Len(dst) = Len(src)
            /\ \A i \in 1..Len(src) : dst[i] = Map(convert_theme(src[i].m))

\* Two files converted in one run: one with two variants of the same name and
\* different content, one with the same variant twice.
C7_Witness ==
    \E f, g \in ConvertedInRun :
        /\ themes_of(at_start[f]).items = <<Map(VLight), Map(VDark)>>
        /\ files[f]["themes"].items[1].m.appearance = Str("light")
        /\ files[f]["themes"].items[2].m.appearance = Str("dark")
        /\ themes_of(at_start[g]).items = <<Map(VDark), Map(VDark)>>
        /\ Len(files[g]["themes"].items) = 2

\* The conversion of the document raises no error.
Convertible(data) ==
    /\ themes_of(data).kind = "list"
    /\ \A i \in 1..Len(themes_of(data).items) : themes_of(data).items[i].kind = "map"

\* C9: when a run of the batch has ended, every file that is not in the
\* skip-list and whose conversion raises no error has been converted and
\* written, also when the conversion of another file failed.
C9_BatchContinues ==
    pc \in {"done", "crashed"} =>
        \A f \in DOMAIN files \ already_converted :
            Convertible(at_start[f]) => f \in ConvertedInRun

\* C10: a file that a complete run has converted and overwritten holds, in
\* every later run, the document that run wrote to it.
C10_MigratedUnchanged ==
    \A f \in DOMAIN migrated : files[f] = migrated[f]

=============================================================================
